---- MODULE Spec2Model ----
(***************************************************************************)
(* Tic-tac-toe against a minimax AI (src/src/components/board.tsx).        *)
(*                                                                         *)
(* The component keeps one React state object, gameState.  Handlers and    *)
(* effects read the gameState of the render that created them (`view`),    *)
(* and write through setGameState.  A commit runs the win/draw effect and  *)
(* then the AI-timer effect; the timer callback keeps the closure of the   *)
(* render that scheduled it.                                               *)
(***************************************************************************)
EXTENDS Integers, Sequences, FiniteSets, TLC

VARIABLES
  gameState,     \* the React state of GameBoard
  view,          \* the gameState of the last render (what closures see)
  boardChanged,  \* a new board array was set since the last render
  pending,       \* the effects of the last commit still to run
  timers,        \* pending setTimeout callbacks, each with its closure
  call, ret,     \* a call of the search made on its own, and its result
  defence        \* every click of the opponent so far was a best reply

vars == <<gameState, view, boardChanged, pending, timers, call, ret, defence>>

\* what the component's own steps leave alone
harness == <<call, ret, defence>>

\* ---------------------------------------------------------------- bounds
\* New Game is offered while neither score has reached MaxScore.
MaxScore == 2

\* ------------------------------------------------------------- constants
null == "null"

\* Infinity stands above, -Infinity below every score (scores lie in -10..10);
\* they are only ever compared.
Infinity == 1000
NegInfinity == 0 - Infinity

\* the "no move" value of getBestMove
NoMove == 0 - 1

BoardLength == 9
Cells == 0..(BoardLength - 1)
Player == {"X", "O"}
CellValue == Player \cup {null}
Board == [Cells -> CellValue]

Max(a, b) == IF a >= b THEN a ELSE b
Min(a, b) == IF a <= b THEN a ELSE b

EmptyBoard == [i \in Cells |-> null]

\* ------------------------------------------------------------ evaluator
\* faulty variant: the second diagonal mistyped
winPatterns_typo ==
  << <<0, 1, 2>>, <<3, 4, 5>>, <<6, 7, 8>>,
     <<0, 3, 6>>, <<1, 4, 7>>, <<2, 5, 8>>,
     <<0, 4, 8>>, <<2, 4, 5>> >>

winPatterns ==
  << <<0, 1, 2>>, <<3, 4, 5>>, <<6, 7, 8>>,
     <<0, 3, 6>>, <<1, 4, 7>>, <<2, 5, 8>>,
     <<0, 4, 8>>, <<2, 4, 6>> >>

\* Does pattern number k hold three equal non-empty cells?
PatternHit(board, k) ==
  /\ board[winPatterns[k][1]] # null
  /\ board[winPatterns[k][1]] = board[winPatterns[k][2]]
  /\ board[winPatterns[k][1]] = board[winPatterns[k][3]]

\* for (const pattern of winPatterns) ... return at the first hit
RECURSIVE CheckFrom(_, _)
CheckFrom(board, k) ==
  IF k > Len(winPatterns) THEN null
  ELSE IF PatternHit(board, k) THEN board[winPatterns[k][1]]
  ELSE CheckFrom(board, k + 1)

checkWinnerForMiniMax(board) == CheckFrom(board, 1)

isBoardFull(board) == \A i \in Cells : board[i] # null

\* --------------------------------------------------------------- search
\* The search writes into the array it is given, so every call returns the
\* score together with the array as it is on return.
RECURSIVE minimax(_, _, _, _, _)
RECURSIVE MaxLoop(_, _, _, _, _, _)
RECURSIVE MinLoop(_, _, _, _, _, _)

\* faulty variant: the break comes before the mark is removed
RECURSIVE MaxLoop_breakBeforeUndo(_, _, _, _, _, _)
MaxLoop_breakBeforeUndo(board, depth, i, bestScore, alpha, beta) ==
  IF i >= BoardLength THEN [score |-> bestScore, board |-> board]
  ELSE IF board[i] = null
  THEN LET r == minimax([board EXCEPT ![i] = "X"], depth + 1, FALSE, alpha, beta)
           undone == [r.board EXCEPT ![i] = null]
           best == Max(r.score, bestScore)
           a == Max(alpha, r.score)
       IN  IF beta <= a
           THEN [score |-> best, board |-> r.board]
           ELSE MaxLoop_breakBeforeUndo(undone, depth, i + 1, best, a, beta)
  ELSE MaxLoop_breakBeforeUndo(board, depth, i + 1, bestScore, alpha, beta)

MaxLoop(board, depth, i, bestScore, alpha, beta) ==
  IF i >= BoardLength THEN [score |-> bestScore, board |-> board]
  ELSE IF board[i] = null
  THEN LET r == minimax([board EXCEPT ![i] = "X"], depth + 1, FALSE, alpha, beta)
           undone == [r.board EXCEPT ![i] = null]
           best == Max(r.score, bestScore)
           a == Max(alpha, r.score)
       IN  IF beta <= a
           THEN [score |-> best, board |-> undone]
           ELSE MaxLoop(undone, depth, i + 1, best, a, beta)
  ELSE MaxLoop(board, depth, i + 1, bestScore, alpha, beta)

\* faulty variant: the break condition of the minimizing loop is inverted
RECURSIVE MinLoop_invertedBreak(_, _, _, _, _, _)
MinLoop_invertedBreak(board, depth, i, bestScore, alpha, beta) ==
  IF i >= BoardLength THEN [score |-> bestScore, board |-> board]
  ELSE IF board[i] = null
  THEN LET r == minimax([board EXCEPT ![i] = "O"], depth + 1, TRUE, alpha, beta)
           undone == [r.board EXCEPT ![i] = null]
           best == Min(r.score, bestScore)
           b == Min(beta, r.score)
       IN  IF alpha <= b
           THEN [score |-> best, board |-> undone]
           ELSE MinLoop_invertedBreak(undone, depth, i + 1, best, alpha, b)
  ELSE MinLoop_invertedBreak(board, depth, i + 1, bestScore, alpha, beta)

MinLoop(board, depth, i, bestScore, alpha, beta) ==
  IF i >= BoardLength THEN [score |-> bestScore, board |-> board]
  ELSE IF board[i] = null
  THEN LET r == minimax([board EXCEPT ![i] = "O"], depth + 1, TRUE, alpha, beta)
           undone == [r.board EXCEPT ![i] = null]
           best == Min(r.score, bestScore)
           b == Min(beta, r.score)
       IN  IF b <= alpha
           THEN [score |-> best, board |-> undone]
           ELSE MinLoop(undone, depth, i + 1, best, alpha, b)
  ELSE MinLoop(board, depth, i + 1, bestScore, alpha, beta)

\* faulty variant: the base cases forget the depth
minimax_noDepth(board, depth, isMaximizing, alpha, beta) ==
  LET winner == checkWinnerForMiniMax(board)
  IN  IF winner = "X" THEN [score |-> 10, board |-> board]
      ELSE IF winner = "O" THEN [score |-> 0 - 10, board |-> board]
      ELSE IF isBoardFull(board) THEN [score |-> 0, board |-> board]
      ELSE IF isMaximizing
           THEN MaxLoop(board, depth, 0, NegInfinity, alpha, beta)
           ELSE MinLoop(board, depth, 0, Infinity, alpha, beta)

\* faulty variant: the base case for a win of O is missing
minimax_noLossCase(board, depth, isMaximizing, alpha, beta) ==
  LET winner == checkWinnerForMiniMax(board)
  IN  IF winner = "X" THEN [score |-> 10 - depth, board |-> board]
      ELSE IF isBoardFull(board) THEN [score |-> 0, board |-> board]
      ELSE IF isMaximizing
           THEN MaxLoop(board, depth, 0, NegInfinity, alpha, beta)
           ELSE MinLoop(board, depth, 0, Infinity, alpha, beta)

\* faulty variant: the full board is tested before the winner
minimax_drawFirst(board, depth, isMaximizing, alpha, beta) ==
  LET winner == checkWinnerForMiniMax(board)
  IN  IF isBoardFull(board) THEN [score |-> 0, board |-> board]
      ELSE IF winner = "X" THEN [score |-> 10 - depth, board |-> board]
      ELSE IF winner = "O" THEN [score |-> depth - 10, board |-> board]
      ELSE IF isMaximizing
           THEN MaxLoop(board, depth, 0, NegInfinity, alpha, beta)
           ELSE MinLoop(board, depth, 0, Infinity, alpha, beta)

minimax(board, depth, isMaximizing, alpha, beta) ==
  LET winner == checkWinnerForMiniMax(board)
  IN  IF winner = "X" THEN [score |-> 10 - depth, board |-> board]
      ELSE IF winner = "O" THEN [score |-> depth - 10, board |-> board]
      ELSE IF isBoardFull(board) THEN [score |-> 0, board |-> board]
      ELSE IF isMaximizing
           THEN MaxLoop(board, depth, 0, NegInfinity, alpha, beta)
           ELSE MinLoop(board, depth, 0, Infinity, alpha, beta)

\* faulty variant: a later cell with an equal score replaces the best move
RECURSIVE BestLoop_lastWins(_, _, _, _)
BestLoop_lastWins(board, i, bestScore, bestMove) ==
  IF i >= BoardLength THEN [move |-> bestMove, board |-> board]
  ELSE IF board[i] = null
  THEN LET r == minimax([board EXCEPT ![i] = "X"], 0, FALSE, NegInfinity, Infinity)
           undone == [r.board EXCEPT ![i] = null]
       IN  IF r.score >= bestScore
           THEN BestLoop_lastWins(undone, i + 1, r.score, i)
           ELSE BestLoop_lastWins(undone, i + 1, bestScore, bestMove)
  ELSE BestLoop_lastWins(board, i + 1, bestScore, bestMove)

RECURSIVE BestLoop(_, _, _, _)
BestLoop(board, i, bestScore, bestMove) ==
  IF i >= BoardLength THEN [move |-> bestMove, board |-> board]
  ELSE IF board[i] = null
  THEN LET r == minimax([board EXCEPT ![i] = "X"], 0, FALSE, NegInfinity, Infinity)
           undone == [r.board EXCEPT ![i] = null]
       IN  IF r.score > bestScore
           THEN BestLoop(undone, i + 1, r.score, i)
           ELSE BestLoop(undone, i + 1, bestScore, bestMove)
  ELSE BestLoop(board, i + 1, bestScore, bestMove)

\* faulty variant: bestScore starts at 0 instead of -Infinity
getBestMove_zeroInit(board) == BestLoop(board, 0, 0, NoMove)

\* faulty variant: the loop starts at cell 1
getBestMove_skipsFirstCell(board) == BestLoop(board, 1, NegInfinity, NoMove)

getBestMove(board) == BestLoop(board, 0, NegInfinity, NoMove)

\* ------------------------------------------------------------ component
\* useState initial value
InitialGameState ==
  [ board |-> EmptyBoard,
    currentPlayer |-> "X",
    winner |-> null,
    isDraw |-> FALSE,
    scores |-> [X |-> 0, O |-> 0],
    isAgainstAI |-> TRUE ]

\* No state update, render or effect is outstanding: the event loop is free
\* to deliver a click or a timer callback.  React flushes the effects of a
\* commit, and the render their updates ask for, before the next event.
Idle == pending = {} /\ ~boardChanged /\ view = gameState

\* dependency list of the AI-timer effect
TimerDeps(gs) == <<gs.currentPlayer, gs.winner, gs.isDraw>>

\* A render after setGameState: handlers and effects now close over the new
\* state; an effect is queued when one of its dependencies changed.
Render ==
  /\ pending = {}
  /\ boardChanged \/ view # gameState
  /\ view' = gameState
  /\ boardChanged' = FALSE
  /\ pending' = (IF boardChanged THEN {"winDraw"} ELSE {})
                 \cup (IF TimerDeps(view) # TimerDeps(gameState)
                       THEN {"aiTimer"} ELSE {})
  /\ UNCHANGED <<gameState, timers, harness>>

\* faulty variant: only a draw is recorded
WinDrawEffect_onlyDraw ==
  /\ "winDraw" \in pending
  /\ LET winner == checkWinnerForMiniMax(view.board)
         isDraw == winner = null /\ isBoardFull(view.board)
     IN  IF isDraw
         THEN gameState' = [gameState EXCEPT !.winner = winner, !.isDraw = isDraw]
         ELSE UNCHANGED gameState
  /\ pending' = pending \ {"winDraw"}
  /\ UNCHANGED <<view, boardChanged, timers, harness>>

\* useEffect(..., [gameState.board])
WinDrawEffect ==
  /\ "winDraw" \in pending
  /\ LET winner == checkWinnerForMiniMax(view.board)
         isDraw == winner = null /\ isBoardFull(view.board)
     IN  IF winner # null \/ isDraw
         THEN gameState' =
                [gameState EXCEPT
                   !.winner = winner,
                   !.isDraw = isDraw,
                   !.scores = IF winner # null
                              THEN [gameState.scores EXCEPT ![winner] = @ + 1]
                              ELSE gameState.scores]
         ELSE UNCHANGED gameState
  /\ pending' = pending \ {"winDraw"}
  /\ UNCHANGED <<view, boardChanged, timers, harness>>

\* useEffect(..., [currentPlayer, winner, isDraw]): the cleanup of the
\* previous run clears its timer, then a new timer is set on the AI's turn.
\* The callback is the makeAIMove of this render, so it keeps this view.
AITimerEffect ==
  /\ "aiTimer" \in pending
  /\ "winDraw" \notin pending
  /\ timers' = IF view.currentPlayer = "X" /\ view.winner = null /\ ~view.isDraw
               THEN {view} ELSE {}
  /\ pending' = pending \ {"aiTimer"}
  /\ UNCHANGED <<gameState, view, boardChanged, harness>>

\* faulty variant: the move is applied without the test for -1
makeAIMove_noSentinelTest ==
  /\ Idle
  /\ \E closure \in timers :
       /\ timers' = timers \ {closure}
       /\ IF closure.currentPlayer = "X" /\ closure.winner = null /\ ~closure.isDraw
          THEN LET bestMove == getBestMove(closure.board).move
               IN  /\ gameState' =
                        [gameState EXCEPT
                           !.board = IF bestMove # NoMove
                                     THEN [closure.board EXCEPT ![bestMove] = "X"]
                                     ELSE closure.board,
                           !.currentPlayer = "O"]
                   /\ boardChanged' = TRUE
          ELSE UNCHANGED <<gameState, boardChanged>>
  /\ UNCHANGED <<view, pending, harness>>

\* The timer fires and runs the makeAIMove it closed over.
makeAIMove ==
  /\ Idle
  /\ \E closure \in timers :
       /\ timers' = timers \ {closure}
       /\ IF closure.currentPlayer = "X" /\ closure.winner = null /\ ~closure.isDraw
          THEN LET bestMove == getBestMove(closure.board).move
               IN  IF bestMove # NoMove
                   THEN /\ gameState' =
                             [gameState EXCEPT
                                !.board = [closure.board EXCEPT ![bestMove] = "X"],
                                !.currentPlayer = "O"]
                        /\ boardChanged' = TRUE
                   ELSE UNCHANGED <<gameState, boardChanged>>
          ELSE UNCHANGED <<gameState, boardChanged>>
  /\ UNCHANGED <<view, pending, harness>>

\* faulty variant: a click is accepted after the game was won
handleCellClick_ignoresWinner(index) ==
  /\ Idle
  /\ IF \/ view.board[index] # null
        \/ view.isDraw
        \/ view.currentPlayer = "X"
     THEN UNCHANGED <<gameState, boardChanged>>
     ELSE /\ gameState' =
               [gameState EXCEPT
                  !.board = [view.board EXCEPT ![index] = "O"],
                  !.currentPlayer = "X"]
          /\ boardChanged' = TRUE
  /\ UNCHANGED <<view, pending, timers>>

\* faulty variant: a click on a marked cell is accepted
handleCellClick_ignoresOccupied(index) ==
  /\ Idle
  /\ IF \/ view.winner # null
        \/ view.isDraw
        \/ view.currentPlayer = "X"
     THEN UNCHANGED <<gameState, boardChanged>>
     ELSE /\ gameState' =
               [gameState EXCEPT
                  !.board = [view.board EXCEPT ![index] = "O"],
                  !.currentPlayer = "X"]
          /\ boardChanged' = TRUE
  /\ UNCHANGED <<view, pending, timers>>

handleCellClick(index) ==
  /\ Idle
  /\ IF \/ view.board[index] # null
        \/ view.winner # null
        \/ view.isDraw
        \/ view.currentPlayer = "X"
     THEN UNCHANGED <<gameState, boardChanged>>
     ELSE /\ gameState' =
               [gameState EXCEPT
                  !.board = [view.board EXCEPT ![index] = "O"],
                  !.currentPlayer = "X"]
          /\ boardChanged' = TRUE
  /\ UNCHANGED <<view, pending, timers>>

\* onClick={() => handleCellClick(index)}: the user clicks a cell
UserClick(index) == handleCellClick(index) /\ UNCHANGED harness

\* New Game.  The number of games is bounded through the score.
resetGame ==
  /\ Idle
  /\ view.scores.X < MaxScore /\ view.scores.O < MaxScore
  /\ gameState' =
       [ board |-> EmptyBoard,
         currentPlayer |-> "X",
         winner |-> null,
         isDraw |-> FALSE,
         scores |-> view.scores,
         isAgainstAI |-> TRUE ]
  /\ boardChanged' = TRUE
  /\ UNCHANGED <<view, pending, timers, harness>>

resetScores ==
  /\ Idle
  /\ gameState' = [gameState EXCEPT !.scores = [X |-> 0, O |-> 0]]
  /\ UNCHANGED <<view, boardChanged, pending, timers, harness>>

\* ------------------------------------------------- the search, call by call
\* `call` is a pending invocation of one of the pure functions and `ret` what
\* it returned; the component itself leaves both alone.
NoCall ==
  [fn |-> "none", board |-> EmptyBoard, isMaximizing |-> FALSE,
   alpha |-> NegInfinity, beta |-> Infinity]

NoReturn ==
  [done |-> FALSE, move |-> NoMove, score |-> 0, winner |-> null,
   board |-> EmptyBoard]

\* A narrow search window: with it the loops of minimax leave through the
\* break at the top of the call already.  (The full window is the one
\* getBestMove enters minimax with.)
Windows == {<<0 - 1, 1>>}

\* Positions of alternate play with X moving first: X has as many marks as
\* O (X to move) or one more (O to move).  Terminal ones are included.
Marks(board, player) == Cardinality({i \in Cells : board[i] = player})

XToMove(board) == Marks(board, "X") = Marks(board, "O")

PlayBoards ==
  {b \in Board : Marks(b, "X") - Marks(b, "O") \in {0, 1}}

\* checkWinnerForMiniMax is called on every board of {null, X, O}^9,
\* getBestMove on every position with X to move (it is the AI's move it
\* computes), minimax on every position of alternate play, with the side to
\* move of the position.  The win/draw effect is run on every position of
\* alternate play as the board of a commit (the running game, whose X is
\* the AI, reaches only some of them).  getBestMove is also called on the
\* full boards, where its precondition (an empty cell) is violated, and
\* makeAIMove is run by a timer whose closure holds a full board with X on
\* turn and no outcome recorded: the game itself never sets such a timer.
SearchCalls ==
  {[fn |-> "checkWinnerForMiniMax", board |-> b, isMaximizing |-> FALSE,
    alpha |-> NegInfinity, beta |-> Infinity] : b \in Board}
  \cup
  {[fn |-> "getBestMove", board |-> b, isMaximizing |-> TRUE,
    alpha |-> NegInfinity, beta |-> Infinity] :
     b \in {pb \in PlayBoards : XToMove(pb) \/ isBoardFull(pb)}}
  \cup
  {[fn |-> "minimax", board |-> b, isMaximizing |-> XToMove(b),
    alpha |-> w[1], beta |-> w[2]] : b \in PlayBoards, w \in Windows}
  \cup
  {[fn |-> "WinDrawEffect", board |-> b, isMaximizing |-> FALSE,
    alpha |-> NegInfinity, beta |-> Infinity] : b \in PlayBoards}
  \cup
  {[fn |-> "makeAIMove", board |-> b, isMaximizing |-> FALSE,
    alpha |-> NegInfinity, beta |-> Infinity] :
     b \in {pb \in PlayBoards : isBoardFull(pb)}}

CallGetBestMove ==
  /\ call.fn = "getBestMove" /\ ~ret.done
  /\ LET r == getBestMove(call.board)
     IN  ret' = [ret EXCEPT !.done = TRUE, !.move = r.move, !.board = r.board]
  /\ UNCHANGED <<gameState, view, boardChanged, pending, timers, call, defence>>

CallMinimax ==
  /\ call.fn = "minimax" /\ ~ret.done
  /\ LET r == minimax(call.board, 0, call.isMaximizing, call.alpha, call.beta)
     IN  ret' = [ret EXCEPT !.done = TRUE, !.score = r.score, !.board = r.board]
  /\ UNCHANGED <<gameState, view, boardChanged, pending, timers, call, defence>>

CallCheckWinner ==
  /\ call.fn = "checkWinnerForMiniMax" /\ ~ret.done
  /\ ret' = [ret EXCEPT !.done = TRUE,
                        !.winner = checkWinnerForMiniMax(call.board),
                        !.board = call.board]
  /\ UNCHANGED <<gameState, view, boardChanged, pending, timers, call, defence>>

\* the game state of a commit whose board is call.board
CommitOf(c) ==
  [InitialGameState EXCEPT
     !.board = c.board,
     !.currentPlayer = IF XToMove(c.board) THEN "X" ELSE "O"]

\* the game state a makeAIMove on call.board closes over: its guard holds
ClosureOf(c) == [InitialGameState EXCEPT !.board = c.board]

InitSearch ==
  /\ call \in SearchCalls
  /\ gameState = (IF call.fn = "WinDrawEffect" THEN CommitOf(call)
                  ELSE IF call.fn = "makeAIMove" THEN ClosureOf(call)
                  ELSE InitialGameState)
  /\ view = gameState
  /\ boardChanged = FALSE
  /\ pending = (IF call.fn = "WinDrawEffect" THEN {"winDraw"} ELSE {})
  /\ timers = (IF call.fn = "makeAIMove" THEN {gameState} ELSE {})
  /\ ret = [NoReturn EXCEPT !.board = call.board]
  /\ defence = TRUE

NextSearch ==
  \/ CallGetBestMove
  \/ CallMinimax
  \/ CallCheckWinner
  \/ WinDrawEffect
  \/ makeAIMove

SpecSearch == InitSearch /\ [][NextSearch]_vars

\* The state after the first render: both effects of the mount are queued.
Init ==
  /\ gameState = InitialGameState
  /\ view = InitialGameState
  /\ boardChanged = FALSE
  /\ pending = {"winDraw", "aiTimer"}
  /\ timers = {}
  /\ call = NoCall
  /\ ret = NoReturn
  /\ defence = TRUE

Next ==
  \/ Render
  \/ WinDrawEffect
  \/ AITimerEffect
  \/ makeAIMove
  \/ \E index \in Cells : UserClick(index)
  \/ resetGame
  \/ resetScores

Spec == Init /\ [][Next]_vars

\* ------------------------------------------------------------- self-play
\* The opponent's side of a self-play game: the score minimax gives the
\* position after O marks cell i (X to move next), and the cells where that
\* score is least.
ReplyScore(board, i) ==
  minimax([board EXCEPT ![i] = "O"], 0, TRUE, NegInfinity, Infinity).score

\* the least ReplyScore over the empty cells from cell i on
RECURSIVE LeastReplyScore(_, _)
LeastReplyScore(board, i) ==
  IF i >= BoardLength THEN Infinity
  ELSE IF board[i] = null
  THEN Min(ReplyScore(board, i), LeastReplyScore(board, i + 1))
  ELSE LeastReplyScore(board, i + 1)

BestReplies(board) ==
  LET least == LeastReplyScore(board, 0)
  IN  {i \in Cells : board[i] = null /\ ReplyScore(board, i) = least}

\* A click of the opponent in a self-play game; `defence` keeps whether all
\* clicks so far were best replies.
OpponentClick ==
  /\ Idle
  /\ view.currentPlayer = "O" /\ view.winner = null /\ ~view.isDraw
  /\ LET best == BestReplies(view.board)
     IN  \E index \in Cells :
           /\ view.board[index] = null
           /\ handleCellClick(index)
           /\ defence' = (defence /\ index \in best)
  /\ UNCHANGED <<call, ret>>

\* One game from the empty board, the AI against an opponent whose clicks
\* are followed through `defence`.
NextSelfPlay ==
  \/ Render
  \/ WinDrawEffect
  \/ AITimerEffect
  \/ makeAIMove
  \/ OpponentClick

SpecSelfPlay == Init /\ [][NextSelfPlay]_vars

\* ------------------------------------------------------------ properties
\* The eight lines of the 3x3 grid, written independently of winPatterns.
Lines ==
  {{0, 1, 2}, {3, 4, 5}, {6, 7, 8},
   {0, 3, 6}, {1, 4, 7}, {2, 5, 8},
   {0, 4, 8}, {2, 4, 6}}

FilledBy(board, line, player) == \A i \in line : board[i] = player

HasTriple(board, player) == \E line \in Lines : FilledBy(board, line, player)

HasEmpty(board) == \E i \in Cells : board[i] = null

NonTerminal(board) ==
  HasEmpty(board) /\ ~HasTriple(board, "X") /\ ~HasTriple(board, "O")

\* the empty cells whose marking by player completes a line
Completing(board, player) ==
  {i \in Cells : board[i] = null /\ HasTriple([board EXCEPT ![i] = player], player)}

TypeOK ==
  /\ gameState.board \in Board
  /\ gameState.currentPlayer \in Player
  /\ gameState.winner \in CellValue
  /\ gameState.isDraw \in BOOLEAN
  /\ gameState.scores.X \in 0..MaxScore
  /\ gameState.scores.O \in 0..MaxScore
  /\ pending \subseteq {"winDraw", "aiTimer"}
  /\ Cardinality(timers) <= 1

\* C1: the AI never loses.  In no reachable state does the board hold a
\* completed O triple, is the winner "O", or has O a point.
C1_AINeverLoses ==
  /\ ~HasTriple(gameState.board, "O")
  /\ gameState.winner # "O"
  /\ gameState.scores.O = 0

\* a game played to its end against four clicks of the opponent
C1_Witness ==
  /\ gameState.isDraw
  /\ Marks(gameState.board, "O") = 4
  /\ ~HasTriple(gameState.board, "O")

\* C8: whenever the timer callback runs makeAIMove and its guard lets it
\* call getBestMove, the board it passes has an empty cell and no completed
\* triple of either player.
C8_SearchPrecondition ==
  [][(Idle /\ timers' # timers) =>
       \A closure \in timers \ timers' :
          (closure.currentPlayer = "X" /\ closure.winner = null /\ ~closure.isDraw)
             => NonTerminal(closure.board)]_vars

\* New Game was pressed while the timer of a position with marks on it was
\* pending: that timer will call getBestMove on the old position.
C8_Witness ==
  /\ Idle
  /\ gameState.board = EmptyBoard
  /\ \E closure \in timers :
        Marks(closure.board, "O") >= 1 /\ NonTerminal(closure.board)

\* C9: no reachable board holds a completed X triple and a completed O
\* triple at once.
C9_NoDoubleWin ==
  /\ ~(HasTriple(gameState.board, "X") /\ HasTriple(gameState.board, "O"))
  /\ ~(HasTriple(view.board, "X") /\ HasTriple(view.board, "O"))

\* the evaluator has reported a win of X, with O two marks in a line
C9_Witness ==
  /\ gameState.winner = "X"
  /\ HasTriple(gameState.board, "X")
  /\ Completing(gameState.board, "O") # {}

\* a getBestMove call that has returned
BestMoveReturned == call.fn = "getBestMove" /\ ret.done

\* C2: on a board with an empty cell and no completed triple getBestMove
\* returns the index of an empty cell, never the sentinel -1.
C2_ReturnsEmptyCell ==
  (BestMoveReturned /\ NonTerminal(call.board))
     => (ret.move \in Cells /\ call.board[ret.move] = null)

\* a position in which every move of X loses, and a cell is returned still
C2_Witness ==
  /\ BestMoveReturned
  /\ NonTerminal(call.board)
  /\ Cardinality(Completing(call.board, "O")) >= 2
  /\ Completing(call.board, "X") = {}
  /\ ret.move \in Cells
  /\ call.board[ret.move] = null

\* the scenario of the specification: X on 0 and 1, O on 3 and 4
ScenarioBoard == [EmptyBoard EXCEPT ![0] = "X", ![1] = "X", ![3] = "O", ![4] = "O"]

\* C3: when X to move can complete a line at once, getBestMove returns a
\* cell that completes a line of X; on the scenario board it returns 2.
C3_TakesImmediateWin ==
  /\ (BestMoveReturned /\ NonTerminal(call.board) /\ XToMove(call.board)
        /\ Completing(call.board, "X") # {})
       => ret.move \in Completing(call.board, "X")
  /\ (BestMoveReturned /\ call.board = ScenarioBoard) => ret.move = 2

\* the win is taken although O threatens to win as well
C3_Witness ==
  /\ BestMoveReturned
  /\ call.board = ScenarioBoard
  /\ Completing(call.board, "O") = {5}
  /\ ret.move = 2

\* C4 as stated: whenever O has two cells of a line and the third is empty,
\* X to move, getBestMove returns the third cell of such a line.
C4_AlwaysBlocks ==
  (BestMoveReturned /\ NonTerminal(call.board) /\ XToMove(call.board)
     /\ Completing(call.board, "O") # {})
    => ret.move \in Completing(call.board, "O")

\* C4 amended: when X to move cannot complete a line at once and exactly
\* one empty cell completes a line of O, getBestMove returns that cell.
C4_BlocksSingleThreat ==
  (BestMoveReturned /\ NonTerminal(call.board) /\ XToMove(call.board)
     /\ Cardinality(Completing(call.board, "O")) = 1
     /\ Completing(call.board, "X") = {})
    => ret.move \in Completing(call.board, "O")

\* the block is made: X cannot win at once, O threatens one cell
C4_Witness ==
  /\ BestMoveReturned
  /\ NonTerminal(call.board)
  /\ XToMove(call.board)
  /\ Completing(call.board, "X") = {}
  /\ Completing(call.board, "O") = {ret.move}

\* C5: on the empty board getBestMove returns a corner or the centre.
C5_OpensCornerOrCentre ==
  (BestMoveReturned /\ call.board = EmptyBoard) => ret.move \in {0, 2, 4, 6, 8}

C5_Witness ==
  /\ BestMoveReturned
  /\ call.board = EmptyBoard
  /\ ret.move \in {0, 2, 4, 6, 8}

\* C7: minimax and getBestMove return with the board cell for cell as it
\* was at entry.
C7_BoardRestored ==
  (ret.done /\ call.fn \in {"minimax", "getBestMove"}) => ret.board = call.board

\* minimax entered with the narrow window on the scenario board: marking
\* cell 2 wins (score 9 >= beta), so the loop leaves through the break with
\* cells 5..8 untried, and the board is as before.
C7_Witness ==
  /\ ret.done
  /\ call.fn = "minimax"
  /\ call.board = ScenarioBoard
  /\ call.beta = 1
  /\ ret.score = 9
  /\ ret.board = call.board

\* the lines of a board filled with three equal marks
FilledLines(board) ==
  {line \in Lines : \E player \in Player : FilledBy(board, line, player)}

\* C10: on a board with exactly one filled line checkWinnerForMiniMax returns
\* the player whose marks fill it; on a board without a filled line, null.
C10_EvaluatorCorrect ==
  (call.fn = "checkWinnerForMiniMax" /\ ret.done) =>
     /\ Cardinality(FilledLines(call.board)) = 1
          => \A line \in FilledLines(call.board) :
                FilledBy(call.board, line, ret.winner)
     /\ FilledLines(call.board) = {} => ret.winner = null

\* the second diagonal alone is filled, by O, and O is reported
C10_Witness ==
  /\ call.fn = "checkWinnerForMiniMax"
  /\ ret.done
  /\ FilledLines(call.board) = {{2, 4, 6}}
  /\ call.board[4] = "O"
  /\ ret.winner = "O"

\* No step of the game is left: nothing is being rendered or flushed, no
\* timer is pending and it is not for the opponent to click.
NoMoveLeft ==
  /\ Idle
  /\ timers = {}
  /\ ~(gameState.currentPlayer = "O" /\ gameState.winner = null /\ ~gameState.isDraw)

\* C6: self-play from the empty board, X playing getBestMove and O a reply
\* of least minimax score, ends with a full board and no winner: as long as
\* O has defended optimally nobody completes a line, and when no move is
\* left the board is full and the draw is recorded.
C6_SelfPlayDraws ==
  defence =>
    /\ gameState.winner = null
    /\ ~HasTriple(gameState.board, "X")
    /\ ~HasTriple(gameState.board, "O")
    /\ NoMoveLeft => (gameState.isDraw /\ isBoardFull(gameState.board))

\* the end of a self-play game: nine marks, five of X, and the draw recorded
C6_Witness ==
  /\ defence
  /\ NoMoveLeft
  /\ gameState.isDraw
  /\ gameState.winner = null
  /\ Marks(gameState.board, "X") = 5
  /\ Marks(gameState.board, "O") = 4

\* the score minimax must give a full board on which player has a line
WinScore(player, depth) == IF player = "X" THEN 10 - depth ELSE depth - 10

\* a full board that holds a completed line
FullAndWon(b) ==
  isBoardFull(b) /\ (HasTriple(b, "X") \/ HasTriple(b, "O"))

\* minimax, at every depth and for either side, scores the full board b as
\* the win of a player who has a line on it, never as the draw 0
ScoredAsWin(b) ==
  \A depth \in 0..BoardLength : \A isMaximizing \in BOOLEAN :
     LET score == minimax(b, depth, isMaximizing, NegInfinity, Infinity).score
     IN  /\ score # 0
         /\ \E player \in Player :
               HasTriple(b, player) /\ score = WinScore(player, depth)

\* C11: a win takes precedence over a draw.  winner and isDraw are never
\* both set; once the win/draw effect has run on a full board with a
\* completed line, winner is set to a player who has a line and isDraw is
\* false; and minimax returns 10 - depth or depth - 10, not 0, on such a
\* board.
C11_WinBeforeDraw ==
  /\ ~(gameState.winner # null /\ gameState.isDraw)
  /\ (call.fn = "WinDrawEffect" /\ "winDraw" \notin pending
        /\ FullAndWon(gameState.board))
       => /\ gameState.winner # null
          /\ HasTriple(gameState.board, gameState.winner)
          /\ ~gameState.isDraw
  /\ (call.fn = "minimax" /\ ret.done /\ FullAndWon(call.board))
       => /\ ret.score # 0
          /\ ret.score = minimax(call.board, 0, call.isMaximizing,
                                 NegInfinity, Infinity).score
          /\ ScoredAsWin(call.board)

\* the effect has run on a full board whose ninth mark completed a line
C11_Witness ==
  /\ call.fn = "WinDrawEffect"
  /\ "winDraw" \notin pending
  /\ isBoardFull(gameState.board)
  /\ HasTriple(gameState.board, "X")
  /\ ~HasTriple(gameState.board, "O")
  /\ gameState.winner = "X"
  /\ ~gameState.isDraw
  /\ gameState.scores.X = 1

\* the game is over: a winner is set or the game is a draw
Terminal(gs) == gs.winner # null \/ gs.isDraw

\* C12: terminal states are absorbing.  Once winner or isDraw is set, no
\* step (a click, a timer firing, an effect, Reset Scores) changes board,
\* currentPlayer, winner or isDraw, except resetGame, after which the board
\* is empty, winner is null, isDraw is false and it is X's turn.
C12_TerminalAbsorbing ==
  [][Terminal(gameState) =>
       \/ /\ gameState'.board = gameState.board
          /\ gameState'.currentPlayer = gameState.currentPlayer
          /\ gameState'.winner = gameState.winner
          /\ gameState'.isDraw = gameState.isDraw
       \/ /\ gameState'.board = EmptyBoard
          /\ gameState'.winner = null
          /\ ~gameState'.isDraw
          /\ gameState'.currentPlayer = "X"
          /\ gameState'.scores = gameState.scores]_vars

\* X has won with an empty cell left and O on turn: a click would be
\* accepted were the game not over
C12_Witness ==
  /\ Idle
  /\ gameState.winner = "X"
  /\ gameState.currentPlayer = "O"
  /\ HasEmpty(gameState.board)

\* the cells in which two boards differ
Changed(b1, b2) == {i \in Cells : b1[i] # b2[i]}

\* b2 is b1 with one empty cell marked by player
OneMark(b1, b2, player) ==
  \E i \in Cells : b1[i] = null /\ b2 = [b1 EXCEPT ![i] = player]

\* C13: every change of the board other than resetGame's marks exactly one
\* empty cell with the mark of the player on turn, and the first change of
\* the board after resetGame puts a single X on an otherwise empty board,
\* whatever the interleaving of clicks, timer firings and resets.
C13_SingleMarkSteps ==
  [][gameState'.board # gameState.board =>
       \/ gameState'.board = EmptyBoard
       \/ /\ OneMark(gameState.board, gameState'.board, gameState.currentPlayer)
          /\ gameState.board = EmptyBoard
               => Marks(gameState'.board, "X") = 1]_vars

\* every cell marked on b1 has the same mark on b2
KeepsMarks(b1, b2) == \A i \in Cells : b1[i] # null => b2[i] = b1[i]

\* C14: the board always has exactly 9 cells, each empty or marked, and
\* across every step other than resetGame a marked cell keeps its mark.
C14_MarksKept ==
  /\ [](DOMAIN gameState.board = Cells /\ Cardinality(Cells) = 9
         /\ gameState.board \in Board)
  /\ [][resetGame \/ KeepsMarks(gameState.board, gameState'.board)]_vars

\* a game in its third round: earlier marks of both players are on the board
C14_Witness ==
  /\ Idle
  /\ Marks(gameState.board, "X") >= 2
  /\ Marks(gameState.board, "O") >= 2
  /\ KeepsMarks(view.board, gameState.board)

\* the scores of the cells from cell i on, as a sequence: for an empty cell
\* the value minimax gives the board with X placed there (opponent to
\* move, depth 0), for a marked cell a value below every score
NoScore == NegInfinity - 1

RECURSIVE CellScores(_, _)
CellScores(board, i) ==
  IF i >= BoardLength THEN <<>>
  ELSE <<IF board[i] = null
         THEN minimax([board EXCEPT ![i] = "X"], 0, FALSE,
                      NegInfinity, Infinity).score
         ELSE NoScore>> \o CellScores(board, i + 1)

\* the cells with the greatest score (scores[i + 1] is the score of cell i)
TopCells(scores) ==
  {i \in Cells : /\ scores[i + 1] # NoScore
                 /\ \A j \in Cells : scores[j + 1] <= scores[i + 1]}

\* C15: getBestMove breaks ties deterministically: on a board with an empty
\* cell it returns the lowest-indexed cell among the empty cells whose
\* minimax score is maximal.
C15_LowestIndexTieBreak ==
  (call.fn = "getBestMove" /\ ret.done /\ HasEmpty(call.board))
    => LET top == TopCells(CellScores(call.board, 0))
       IN  /\ ret.move \in top
           /\ \A i \in top : ret.move <= i

\* several cells tie for the best score, a lower-indexed empty cell scores
\* less, and the first of the tied cells was returned
C15_Witness ==
  /\ call.fn = "getBestMove" /\ ret.done /\ HasEmpty(call.board)
  /\ LET top == TopCells(CellScores(call.board, 0))
     IN  /\ Cardinality(top) >= 2
         /\ ret.move \in top
         /\ \E i \in Cells : i < ret.move /\ call.board[i] = null
         /\ \E i \in top : ret.move < i

\* the greatest and the least element of a non-empty set of integers
SetMax(S) == CHOOSE x \in S : \A y \in S : y <= x

SetMin(S) == CHOOSE x \in S : \A y \in S : x <= y

\* minimax without alpha, beta and the breaks: the same base cases, then
\* the greatest (X to move) or least (O to move) score over all empty cells
RECURSIVE PlainMinimax(_, _, _)
PlainMinimax(board, depth, isMaximizing) ==
  LET winner == checkWinnerForMiniMax(board)
  IN  IF winner = "X" THEN 10 - depth
      ELSE IF winner = "O" THEN depth - 10
      ELSE IF isBoardFull(board) THEN 0
      ELSE LET scores ==
                 {PlainMinimax([board EXCEPT
                                  ![i] = IF isMaximizing THEN "X" ELSE "O"],
                               depth + 1, ~isMaximizing) :
                    i \in {j \in Cells : board[j] = null}}
           IN  IF isMaximizing THEN SetMax(scores) ELSE SetMin(scores)

\* the scores of the exhaustive search for the cells from cell i on
RECURSIVE PlainCellScores(_, _)
PlainCellScores(board, i) ==
  IF i >= BoardLength THEN <<>>
  ELSE <<IF board[i] = null
         THEN PlainMinimax([board EXCEPT ![i] = "X"], 0, FALSE)
         ELSE NoScore>> \o PlainCellScores(board, i + 1)

\* the pruned search agrees with the exhaustive one on board: the score of
\* every empty cell is the same, and next is board with an X on the first
\* of the cells the exhaustive search scores highest
SameDecision(board, next) ==
  LET plain == PlainCellScores(board, 0)
  IN  /\ CellScores(board, 0) = plain
      /\ getBestMove(board).move = SetMin(TopCells(plain))
      /\ next = [board EXCEPT ![SetMin(TopCells(plain))] = "X"]

\* C16: alpha-beta pruning does not change the decision.  Whenever the AI
\* moves in play, on a position with X to move, the score minimax computes
\* with the breaks for each empty cell (X placed, depth 0, opponent to
\* move, full window) equals the score of plain minimax, and the cell
\* getBestMove returns, which is marked, is the one an exhaustive search
\* with the same tie-break returns.
C16_PruningKeepsDecision ==
  [][(Idle /\ timers' # timers) =>
       \A closure \in timers \ timers' :
          (closure.currentPlayer = "X" /\ closure.winner = null
             /\ ~closure.isDraw /\ HasEmpty(closure.board))
            => SameDecision(closure.board, gameState'.board)]_vars

\* the AI has answered the opponent's first mark: its search was run on a
\* position with two marks, in which the pruning cuts branches
C16_Witness ==
  /\ Marks(gameState.board, "X") = 2
  /\ Marks(gameState.board, "O") = 1
  /\ gameState.currentPlayer = "O"
  /\ boardChanged
  /\ timers = {}

\* C17: a violated precondition is handled by a sentinel.  getBestMove
\* called on a board with no empty cell returns -1 and leaves the board as
\* it was, and makeAIMove, which then receives -1, leaves the whole game
\* state (board, currentPlayer, winner, isDraw, scores) unchanged.
C17_SentinelNoCorruption ==
  /\ (BestMoveReturned /\ isBoardFull(call.board))
       => (ret.move = NoMove /\ ret.board = call.board)
  /\ (call.fn = "makeAIMove" /\ timers = {})
       => /\ gameState = ClosureOf(call)
          /\ gameState = view
          /\ ~boardChanged

\* makeAIMove has run on a full board without a line and changed nothing
C17_Witness ==
  /\ call.fn = "makeAIMove"
  /\ timers = {}
  /\ isBoardFull(call.board)
  /\ checkWinnerForMiniMax(call.board) = null
  /\ getBestMove(call.board).move = NoMove
  /\ gameState.board = call.board
  /\ gameState.currentPlayer = "X"

\* the counts of the marks and the player on turn agree: as many X as O
\* with X on turn, or one X more with O on turn
CountsMatchTurn(gs) ==
  /\ Marks(gs.board, "X") - Marks(gs.board, "O") \in {0, 1}
  /\ gs.currentPlayer = "X" <=> Marks(gs.board, "X") = Marks(gs.board, "O")
  /\ gs.currentPlayer = "O" <=> Marks(gs.board, "X") = Marks(gs.board, "O") + 1

\* C18: turns strictly alternate with the AI first.  In every reachable
\* state the board holds as many X as O or one X more, currentPlayer is "X"
\* exactly when the counts are equal and "O" exactly when X has one more,
\* and no player places two marks in a row: a step that adds marks adds
\* one mark, of the player on turn, and passes the turn.
C18_TurnsAlternate ==
  /\ [] CountsMatchTurn(gameState)
  /\ [][\A player \in Player :
          Marks(gameState'.board, player) > Marks(gameState.board, player)
            => /\ Marks(gameState'.board, player)
                    = Marks(gameState.board, player) + 1
               /\ gameState.currentPlayer = player
               /\ gameState'.currentPlayer # player]_vars

\* the state AI-to-move: X on turn, no winner, no draw
AIToMove(gs) == gs.currentPlayer = "X" /\ gs.winner = null /\ ~gs.isDraw

\* C19: the AI always answers.  No settled state is AI-to-move without a
\* pending AI-move timer, and when a pending timer fires in an AI-to-move
\* state the AI places exactly one X on the board of the game and the
\* state is no longer AI-to-move (the opponent is on turn, or the outcome
\* is recorded next).
C19_AIAnswers ==
  /\ [](Idle /\ AIToMove(gameState) => timers # {})
  /\ [][(Idle /\ AIToMove(gameState) /\ timers' # timers) =>
          /\ OneMark(gameState.board, gameState'.board, "X")
          /\ ~AIToMove(gameState')]_vars
====
